---------------------------- MODULE Spec2Model ----------------------------
(***************************************************************************)
(* A model of the prime_fields package: primes.py (Fp, Element, Matrix)    *)
(* and polynomial.py (Polynomial, companion_matrix, block_diagonal).       *)
(*                                                                         *)
(* Python values are records of one shape, so that any two of them can be  *)
(* compared:                                                               *)
(*   an int n             [kind |-> "int",     prime |-> 0, value |-> n]   *)
(*   an Element of Fp(p)  [kind |-> "Element", prime |-> p, value |-> v]   *)
(*   a float n/d          [kind |-> "float",   value |-> n, den |-> d]     *)
(*   a raised exception   [kind |-> "TypeError" | "ValueError" | ...]      *)
(* An Fp object is modelled by its prime (Fp.__eq__ compares primes), and  *)
(* Matrix's "field=0" sentinel by 0.                                       *)
(***************************************************************************)
EXTENDS Integers, Sequences, FiniteSets

VARIABLES
    acc,        \* SpecElement: the Element at the head of a chain of operations
    araw,       \* SpecElement: an integer a with acc = Element(Fp(p), a)
    eres,       \* SpecElement: the last Element operation and what it returned
    poly,       \* SpecPolynomial: the last Polynomial constructed
    pres,       \* SpecPolynomial: the last call on poly and what it returned
    arrays,     \* Spec: the heap of list-of-lists objects (cell arrays)
    matrices,   \* Spec: the Matrix objects; .matrix is an index into arrays
    cons,       \* Spec: each Matrix's size, field and cells as first constructed
    mres,       \* Spec: the last Matrix call and what it returned
    trial       \* SpecAlgebra: one trial of the multiplication laws

vars == <<acc, araw, eres, poly, pres, arrays, matrices, cons, mres, trial>>

elemVars == <<acc, araw, eres>>
polyVars == <<poly, pres>>
matVars  == <<arrays, matrices, cons, mres>>

----------------------------------------------------------------------------
(* Bounds of the model.                                                    *)

\* Integers handed to Element and to the Element operators: -MaxInt..MaxInt.
MaxInt == 3
\* Candidate moduli handed to Fp: 1..MaxModulus.
MaxModulus == 5
\* Coefficient lists handed to Polynomial have at most MaxLen entries.
MaxLen == 3
\* Integer coefficients handed to Polynomial: -MaxCoef..MaxCoef.
MaxCoef == 2
\* The heap holds at most MaxArrays cell arrays and MaxMatrices Matrix objects.
MaxArrays == 2
MaxMatrices == 2
\* The first cell of a cell array the caller makes: 0..MaxSeed.
MaxSeed == 1
\* Exponents and int factors handed to a Matrix: 0..MaxExp.
MaxExp == 2
\* block_diagonal is handed at most MaxBlocks matrices.
MaxBlocks == 2
\* Integers in the cell arrays of A in the law trials: 0..MaxCell.
MaxCell == 1

\* The primes of the fields used for polynomials and matrices.
Primes == {2, 3}
\* The matrix sizes used.
Sizes == {1, 2}

----------------------------------------------------------------------------
(* Python values.                                                          *)

PyInt(n) == [kind |-> "int", prime |-> 0, value |-> n, den |-> 1]

Raise(name) == [kind |-> name, prime |-> 0, value |-> 0, den |-> 1]

Exceptions ==
    {"TypeError", "ValueError", "ZeroDivisionError", "IndexError", "AttributeError",
     "NotImplementedError"}

IsExc(x) == x.kind \in Exceptions

\* Python's % for a positive modulus: the result is in 0..n-1, also for a < 0.
PyMod(a, n) == a % n

\* sympy.isprime
isprime(n) == n > 1 /\ \A d \in 2..(n - 1) : n % d # 0

\* Fp.__init__: the field is kept as its prime.
Fp(prime) == IF isprime(prime) THEN PyInt(prime) ELSE Raise("ValueError")

\* Element.__init__ with an Fp field and an int value: value % field.prime.
Element(field, value) ==
    [kind |-> "Element", prime |-> field, value |-> PyMod(value, field), den |-> 1]

\* The decorator make_other_Element: other as an Element of self's field, or
\* the TypeError it raises.
make_other_Element(self, other) ==
    IF other.kind = "Element"
    THEN IF self.prime # other.prime THEN Raise("TypeError") ELSE other
    ELSE IF other.kind = "int"
         THEN Element(self.prime, other.value)
         ELSE Raise("TypeError")

Element_add(self, other) ==
    LET o == make_other_Element(self, other)
    IN  IF IsExc(o) THEN o ELSE Element(self.prime, self.value + o.value)

Element_radd(self, other) == Element_add(self, other)

Element_sub_swapped(self, other) ==
    LET o == make_other_Element(self, other)
    IN  IF IsExc(o) THEN o ELSE Element(self.prime, o.value - self.value)

Element_sub(self, other) ==
    LET o == make_other_Element(self, other)
    IN  IF IsExc(o) THEN o ELSE Element(self.prime, self.value - o.value)

Element_rsub(self, other) ==
    LET o == make_other_Element(self, other)
    IN  IF IsExc(o) THEN o ELSE Element(self.prime, o.value - self.value)

Element_mul(self, other) ==
    LET o == make_other_Element(self, other)
    IN  IF IsExc(o) THEN o ELSE Element(self.prime, self.value * o.value)

Element_rmul(self, other) == Element_mul(self, other)

\* x + y, x - y, x * y as Python dispatches them on ints and Elements: an
\* Element on the left uses its own method; an int on the left of an Element
\* falls back to the Element's reflected method.
PyAdd(x, y) ==
    IF IsExc(x) THEN x
    ELSE IF IsExc(y) THEN y
    ELSE IF x.kind = "Element" THEN Element_add(x, y)
    ELSE IF y.kind = "Element" THEN Element_radd(y, x)
    ELSE PyInt(x.value + y.value)

PySub(x, y) ==
    IF IsExc(x) THEN x
    ELSE IF IsExc(y) THEN y
    ELSE IF x.kind = "Element" THEN Element_sub(x, y)
    ELSE IF y.kind = "Element" THEN Element_rsub(y, x)
    ELSE PyInt(x.value - y.value)

PyMul(x, y) ==
    IF IsExc(x) THEN x
    ELSE IF IsExc(y) THEN y
    ELSE IF x.kind = "Element" THEN Element_mul(x, y)
    ELSE IF y.kind = "Element" THEN Element_rmul(y, x)
    ELSE PyInt(x.value * y.value)

----------------------------------------------------------------------------
(* SpecElement: Elements and chains of +, -, * on them.                    *)

NoCall == [op |-> "none"]

Ints == (-MaxInt)..MaxInt

FieldPrimes == {n \in 1..MaxModulus : isprime(n)}

ElementCall(op, self, other) ==
    CASE op = "add"  -> Element_add(self, other)
      [] op = "radd" -> Element_radd(self, other)
      [] op = "sub"  -> Element_sub(self, other)
      [] op = "rsub" -> Element_rsub(self, other)
      [] op = "mul"  -> Element_mul(self, other)
      [] op = "rmul" -> Element_rmul(self, other)

ElementOps == {"add", "radd", "sub", "rsub", "mul", "rmul"}

\* Fp(n) followed by Element(field, a): a fresh head of the chain.  araw is
\* the integer the head was built from.
NewElement(n, a) ==
    LET f == Fp(n)
    IN  /\ eres' = [op |-> "Element", p |-> n, a |-> a, q |-> 0, b |-> 0,
                    result |-> IF IsExc(f) THEN f ELSE Element(f.value, a)]
        /\ acc' = IF IsExc(f) THEN acc ELSE Element(f.value, a)
        /\ araw' = IF IsExc(f) THEN araw ELSE a
        /\ UNCHANGED <<polyVars, matVars, trial>>

\* acc op other, where other is the int b (q = 0) or Element(Fp(q), b).  The
\* result, unless an exception, is the next head of the chain.
ElementOp(op, q, b) ==
    LET other == IF q = 0 THEN PyInt(b) ELSE Element(q, b)
        r == ElementCall(op, acc, other)
    IN  /\ eres' = [op |-> op, p |-> acc.prime, a |-> araw, q |-> q, b |-> b,
                    result |-> r]
        /\ acc' = IF IsExc(r) THEN acc ELSE r
        /\ araw' = IF IsExc(r) THEN araw ELSE r.value
        /\ UNCHANGED <<polyVars, matVars, trial>>

InitElementIdle == acc = Element(2, 0) /\ araw = 0 /\ eres = NoCall
InitPolyIdle == poly = [kind |-> "Polynomial", coefficients |-> <<PyInt(0)>>] /\ pres = NoCall
InitMatIdle == arrays = <<>> /\ matrices = <<>> /\ cons = <<>> /\ mres = NoCall
InitTrialIdle == trial = NoCall

InitElement ==
    /\ \E p \in FieldPrimes : acc = Element(p, 0)
    /\ araw = 0
    /\ eres = NoCall
    /\ InitPolyIdle /\ InitMatIdle /\ InitTrialIdle

NextElement ==
    \/ \E n \in 1..MaxModulus, a \in Ints : NewElement(n, a)
    \/ \E op \in ElementOps, q \in {0} \cup FieldPrimes, b \in Ints :
         ElementOp(op, q, b)

SpecElement == InitElement /\ [][NextElement]_vars

\* What a op b is over the integers, for the operation named op.
IntResult(op, a, b) ==
    CASE op \in {"add", "radd"} -> a + b
      [] op = "sub"             -> a - b
      [] op = "rsub"            -> b - a
      [] op \in {"mul", "rmul"} -> a * b

\* C1: for every prime p and all integers a and b, adding, subtracting or
\* multiplying Element(Fp(p), a) and Element(Fp(p), b) (or the int b, which is
\* coerced) returns an Element of the same field whose value is (a+b) mod p,
\* (a-b) mod p or (a*b) mod p, and the value of every Element, also after a
\* chain of operations, lies in 0..p-1.
C1_ElementArithmetic ==
    /\ acc.kind = "Element" /\ 0 <= acc.value /\ acc.value < acc.prime
    /\ (eres.op \in ElementOps /\ eres.q \in {0, eres.p}) =>
          /\ eres.result.kind = "Element"
          /\ eres.result.prime = eres.p
          /\ eres.result.value = IntResult(eres.op, eres.a, eres.b) % eres.p
          /\ 0 <= eres.result.value /\ eres.result.value < eres.p

\* C1's case: a subtraction of two Elements of F5 whose integer difference is
\* negative, so that the result has to wrap around to 3.
C1_Witness ==
    /\ eres.op = "sub" /\ eres.p = 5 /\ eres.q = 5
    /\ eres.a - eres.b < 0
    /\ eres.result.kind = "Element"
    /\ eres.result.value = 3

----------------------------------------------------------------------------
(* Polynomial (polynomial.py).                                             *)

\* x == n for an int literal n.  Element defines no __eq__, so an Element
\* compares by identity and is never equal to an int; a float n/d compares
\* by value.
PyEqInt(x, n) ==
    CASE x.kind = "int"   -> x.value = n
      [] x.kind = "float" -> x.value = n * x.den
      [] OTHER            -> FALSE

\* The while loop of Polynomial.__init__: pop while the last entry == 0 and
\* more than one entry is left.
RECURSIVE TrimTrailing(_)
TrimTrailing(coefi) ==
    IF PyEqInt(coefi[Len(coefi)], 0) /\ Len(coefi) # 1
    THEN TrimTrailing(SubSeq(coefi, 1, Len(coefi) - 1))
    ELSE coefi

\* Polynomial.__init__
Polynomial(coefs) ==
    [kind |-> "Polynomial",
     coefficients |-> IF Len(coefs) = 0 THEN <<PyInt(0)>> ELSE TrimTrailing(coefs)]

\* The property Polynomial.degree
degree(self) == Len(self.coefficients) - 1

\* x(): calling a value that is an int (or any other number) raises TypeError.
PyCall(x) == Raise("TypeError")

\* Whether computing a sequence of values raised, and the first exception
\* raised, in order.
HasExc(seq) == \E i \in 1..Len(seq) : IsExc(seq[i])

FirstExc(seq) ==
    seq[CHOOSE i \in 1..Len(seq) :
            IsExc(seq[i]) /\ \A j \in 1..(i - 1) : ~IsExc(seq[j])]

\* Polynomial.dx: self.degree() calls the int that the property returns.
dx(self) ==
    LET d == PyCall(PyInt(degree(self)))
    IN  IF IsExc(d) THEN d
        ELSE IF d.value >= 1
             THEN LET cs == [i \in 1..d.value |->
                                 PyMul(self.coefficients[i + 1], PyInt(i))]
                  IN  IF HasExc(cs) THEN FirstExc(cs) ELSE Polynomial(cs)
             ELSE Polynomial(<<PyInt(0)>>)

\* derivative(poly)
derivative(p) == dx(p)

\* Polynomial.__mul__ with a Number: every coefficient scaled.  With a
\* Polynomial: self.degree() is called first.
Polynomial_mul(self, other) ==
    IF other.kind = "Polynomial"
    THEN LET d == PyCall(PyInt(degree(self)))
         IN  IF IsExc(d) THEN d
             ELSE LET deg == d.value + degree(other)
                      term(k) == [i \in 1..Len(self.coefficients) |->
                                    IF k - i + 1 \in 1..Len(other.coefficients)
                                    THEN PyMul(self.coefficients[i],
                                               other.coefficients[k - i + 1])
                                    ELSE PyInt(0)]
                      RECURSIVE Sum(_, _)
                      Sum(t, n) == IF n = 0 THEN PyInt(0) ELSE PyAdd(Sum(t, n - 1), t[n])
                      cs == [k \in 1..(deg + 1) |->
                                        Sum(term(k), Len(self.coefficients))]
                  IN  IF HasExc(cs) THEN FirstExc(cs) ELSE Polynomial(cs)
    ELSE IF other.kind \in {"int", "float"}
    THEN LET cs == [i \in 1..Len(self.coefficients) |->
                               PyMul(other, self.coefficients[i])]
         IN  IF HasExc(cs) THEN FirstExc(cs) ELSE Polynomial(cs)
    ELSE Raise("NotImplementedError")

\* Polynomial.__add__ with a Number: added to the constant term.  With a
\* Polynomial: self.degree() is called first.
Polynomial_add(self, other) ==
    IF other.kind = "Polynomial"
    THEN LET d == PyCall(PyInt(degree(self)))
         IN  IF IsExc(d) THEN d
             ELSE LET common == (IF d.value < degree(other)
                                 THEN d.value ELSE degree(other)) + 1
                      n == Len(self.coefficients) + Len(other.coefficients) - common
                      cs == [i \in 1..n |->
                              IF i <= common
                              THEN PyAdd(self.coefficients[i], other.coefficients[i])
                              ELSE IF i <= Len(self.coefficients)
                                   THEN self.coefficients[i]
                                   ELSE other.coefficients[i]]
                  IN  IF HasExc(cs) THEN FirstExc(cs) ELSE Polynomial(cs)
    ELSE IF other.kind \in {"int", "float"}
    THEN LET c0 == PyAdd(self.coefficients[1], other)
         IN  IF IsExc(c0) THEN c0
             ELSE Polynomial(<<c0>> \o SubSeq(self.coefficients, 2,
                                              Len(self.coefficients)))
    ELSE Raise("TypeError")

----------------------------------------------------------------------------
(* Matrix (primes.py).  A Matrix value is [kind |-> "Matrix", size, field,  *)
(* matrix], where field is 0 or the prime of an Fp and matrix is the list   *)
(* of rows.                                                                 *)

\* _validate: every row as long as the array.
_validate(array) == \A i \in 1..Len(array) : Len(array[i]) = Len(array)

\* What _elementarise stores in place of one cell, or the TypeError it raises.
ElementariseCell(field, c) ==
    IF c.kind = "Element"
    THEN IF c.prime = field THEN c ELSE Element(field, c.value)
    ELSE IF c.kind # "int" THEN Raise("TypeError") ELSE Element(field, c.value)

\* _elementarise(field, array): the array is rewritten in place, cell by cell
\* in row order, up to the first cell that raises.  result is what the call
\* returns (the same array object) or raises; array is the content of the
\* array object after the call.
_elementarise(field, array) ==
    IF field = 0 THEN [result |-> array, array |-> array, raised |-> FALSE]
    ELSE
      LET n == Len(array)
          bad(i, j) == IsExc(ElementariseCell(field, array[i][j]))
          raised == \E i \in 1..n, j \in 1..n : bad(i, j)
          before(i, j) == \A a \in 1..n, b \in 1..n :
                             (a < i \/ (a = i /\ b <= j)) => ~bad(a, b)
          after == [i \in 1..n |-> [j \in 1..n |->
                      IF ~raised \/ before(i, j)
                      THEN ElementariseCell(field, array[i][j])
                      ELSE array[i][j]]]
      IN  [result |-> IF raised THEN Raise("TypeError") ELSE after,
           array |-> after, raised |-> raised]

\* Matrix.__init__(self, array, field=0).  result is the Matrix or the
\* exception; array is the content of the caller's array object afterwards:
\* self.matrix is that same object.
Matrix(array, field) ==
    IF field # 0 /\ ~_validate(array)
    THEN [result |-> Raise("TypeError"), array |-> array]
    ELSE LET e == _elementarise(field, array)
         IN  [result |-> IF e.raised THEN e.result
                         ELSE [kind |-> "Matrix", size |-> Len(array),
                               field |-> field, matrix |-> e.array],
              array |-> e.array]

\* A call of Matrix with three positional arguments, Matrix(n, array, field):
\* __init__ takes at most two besides self, so the call raises TypeError
\* before __init__ runs.
MatrixCall3(n, array, field) == Raise("TypeError")

\* _checkmatrix(self, other) for a Matrix other: the exception raised, or
\* PyInt(0) for a return.
_checkmatrix(self, other) ==
    IF self.size - other.size # 0 THEN Raise("TypeError")
    ELSE IF self.field = 0 THEN Raise("TypeError")
    ELSE IF other.field = 0 THEN Raise("AttributeError")
    ELSE IF self.field - other.field # 0 THEN Raise("TypeError")
    ELSE PyInt(0)

\* Whether filling the n x n cells of a result_matrix raised, and the first
\* exception raised, in row order.
HasExcCells(cells) ==
    \E i \in 1..Len(cells), j \in 1..Len(cells) : IsExc(cells[i][j])

FirstExcCells(cells) ==
    LET n == Len(cells)
        p == CHOOSE p \in (1..n) \X (1..n) :
                /\ IsExc(cells[p[1]][p[2]])
                /\ \A a \in 1..n, b \in 1..n :
                     (a < p[1] \/ (a = p[1] /\ b < p[2])) => ~IsExc(cells[a][b])
    IN  cells[p[1]][p[2]]

\* a[i][j] of a list of rows, 1-based here; IndexError out of range.
Cell(rows, i, j) ==
    IF i > Len(rows) THEN Raise("IndexError")
    ELSE IF j > Len(rows[i]) THEN Raise("IndexError")
    ELSE rows[i][j]

\* Matrix.__add__
Matrix_add(self, other) ==
    LET chk == _checkmatrix(self, other)
        result_matrix == [i \in 1..self.size |-> [j \in 1..self.size |->
                            PyAdd(self.matrix[i][j], other.matrix[i][j])]]
    IN  IF IsExc(chk) THEN chk
        ELSE IF HasExcCells(result_matrix) THEN FirstExcCells(result_matrix)
        ELSE Matrix(result_matrix, self.field).result

\* Matrix.__sub__
Matrix_sub(self, other) ==
    LET chk == _checkmatrix(self, other)
        result_matrix == [i \in 1..self.size |-> [j \in 1..self.size |->
                            PySub(self.matrix[i][j], other.matrix[i][j])]]
    IN  IF IsExc(chk) THEN chk
        ELSE IF HasExcCells(result_matrix) THEN FirstExcCells(result_matrix)
        ELSE Matrix(result_matrix, self.field).result

\* sum(self.matrix[i][k] * other.matrix[k][j] for k in range(self.size)), up
\* to and including term k: each term is computed, then added to the sum so
\* far, which starts as the int 0.
RECURSIVE DotTransposed(_, _, _, _, _)
DotTransposed(self, other, i, j, k) ==
    IF k = 0 THEN PyInt(0)
    ELSE LET s == DotTransposed(self, other, i, j, k - 1)
             t == PyMul(Cell(self.matrix, i, k), Cell(other.matrix, j, k))
         IN  IF IsExc(s) THEN s ELSE IF IsExc(t) THEN t ELSE PyAdd(s, t)

RECURSIVE Dot(_, _, _, _, _)
Dot(self, other, i, j, k) ==
    IF k = 0 THEN PyInt(0)
    ELSE LET s == Dot(self, other, i, j, k - 1)
             t == PyMul(Cell(self.matrix, i, k), Cell(other.matrix, k, j))
         IN  IF IsExc(s) THEN s ELSE IF IsExc(t) THEN t ELSE PyAdd(s, t)

\* Matrix.__mul__: other an int scales every cell; other a Matrix gives the
\* row-by-column products.  Nothing is checked first.
Matrix_mul(self, other) ==
    LET result_matrix ==
          IF other.kind = "int"
          THEN [i \in 1..self.size |-> [j \in 1..self.size |->
                                PyMul(self.matrix[i][j], other)]]
          ELSE [i \in 1..self.size |-> [j \in 1..self.size |->
                                Dot(self, other, i, j, self.size)]]
    IN  IF HasExcCells(result_matrix) THEN FirstExcCells(result_matrix)
        ELSE Matrix(result_matrix, self.field).result

\* Matrix.__pow__ with an int exponent: self itself when other <= 1, else
\* other - 1 multiplications by self.
RECURSIVE Matrix_pow(_, _)
Matrix_pow(self, other) ==
    IF other <= 1 THEN self
    ELSE LET r == Matrix_pow(self, other - 1)
         IN  IF IsExc(r) THEN r ELSE Matrix_mul(r, self)

----------------------------------------------------------------------------
(* companion_matrix and block_diagonal (polynomial.py).                    *)

RECURSIVE Gcd(_, _)
Gcd(a, b) == IF b = 0 THEN a ELSE Gcd(b, a % b)

Abs(a) == IF a < 0 THEN -a ELSE a

\* x / y, true division.  An Element has no __truediv__ (TypeError); int / 0
\* raises ZeroDivisionError; int / int is a float, kept here as the reduced
\* fraction it rounds (exact when the divisor is a power of two).
PyTrueDiv(x, y) ==
    IF x.kind = "Element" \/ y.kind = "Element" THEN Raise("TypeError")
    ELSE IF y.value = 0 THEN Raise("ZeroDivisionError")
    ELSE LET g == Gcd(Abs(x.value), Abs(y.value))
             sgn == IF y.value < 0 THEN -1 ELSE 1
         IN  [kind |-> "float", prime |-> 0,
              value |-> (sgn * x.value) \div g, den |-> Abs(y.value) \div g]

\* -x.  An Element has no __neg__.
PyNeg(x) ==
    IF x.kind = "Element" THEN Raise("TypeError")
    ELSE [x EXCEPT !.value = -x.value]

\* x[0] on an Element: not subscriptable.
PySubscript(x) == Raise("TypeError")

\* companion_matrix(poly) for a Polynomial poly.
companion_matrix(p) ==
    IF degree(p) - 1 = 0 THEN Raise("ValueError")
    ELSE
      LET n == degree(p)
          cs == p.coefficients
          quot == [i \in 1..Len(cs) |-> PyTrueDiv(cs[i], cs[Len(cs)])]
          \* after coefs.pop(): the leading 1.0 is gone
          coefs == SubSeq(quot, 1, Len(quot) - 1)
          field == IF cs[1].kind = "Element" THEN PySubscript(cs[1]) ELSE PyInt(0)
          \* row i (from 1) takes coefs.pop(), the last entry still there:
          \* entry n - i + 1 of coefs
          companion == [i \in 1..n |-> [j \in 1..n |->
                          IF j = n THEN PyNeg(coefs[n - i + 1])
                          ELSE IF i > 1 /\ j = i - 1 THEN PyInt(1)
                          ELSE PyInt(0)]]
      IN  IF HasExc(quot) THEN FirstExc(quot)
          ELSE IF IsExc(field) THEN field
          ELSE IF HasExcCells(companion) THEN FirstExcCells(companion)
          ELSE MatrixCall3(n, companion, field.value)

\* _check_input(square_matrices) for a list of Matrix objects: the first
\* matrix's field, or the exception raised.
_check_input(square_matrices) ==
    IF \E k \in 1..Len(square_matrices) :
          square_matrices[k].field # square_matrices[1].field
    THEN Raise("TypeError")
    ELSE IF Len(square_matrices) = 0 THEN Raise("IndexError")
    ELSE PyInt(square_matrices[1].field)

\* _populate_zeroes(matrix, current_size, total_size)
_populate_zeroes(matrix, current_size, total_size) ==
    [i \in 1..matrix.size |->
        [j \in 1..current_size |-> PyInt(0)]
        \o matrix.matrix[i]
        \o [j \in 1..(total_size - current_size - matrix.size) |-> PyInt(0)]]

RECURSIVE SumSizes(_, _)
SumSizes(square_matrices, k) ==
    IF k = 0 THEN 0 ELSE SumSizes(square_matrices, k - 1) + square_matrices[k].size

\* The rows gathered by the loop of block_diagonal over the first k matrices.
RECURSIVE BlockRows(_, _, _)
BlockRows(square_matrices, k, total_size) ==
    IF k = 0 THEN <<>>
    ELSE BlockRows(square_matrices, k - 1, total_size)
         \o _populate_zeroes(square_matrices[k],
                             SumSizes(square_matrices, k - 1), total_size)

\* block_diagonal(square_matrices)
block_diagonal(square_matrices) ==
    LET field == _check_input(square_matrices)
        total_size == SumSizes(square_matrices, Len(square_matrices))
        blockdiag_matrix ==
            BlockRows(square_matrices, Len(square_matrices), total_size)
    IN  IF IsExc(field) THEN field
        ELSE MatrixCall3(total_size, blockdiag_matrix, field.value)

----------------------------------------------------------------------------
(* SpecPolynomial: Polynomials are constructed, scaled and shifted, and     *)
(* dx, derivative and companion_matrix are called on them.                  *)

RECURSIVE SeqsUpTo(_, _)
SeqsUpTo(S, n) ==
    IF n = 0 THEN {<<>>}
    ELSE LET shorter == SeqsUpTo(S, n - 1)
         IN  shorter \cup {Append(q, x) : q \in {r \in shorter : Len(r) = n - 1}, x \in S}

\* The coefficient lists handed to Polynomial: ints, or Elements of one field.
CoefLists ==
    SeqsUpTo({PyInt(c) : c \in (-MaxCoef)..MaxCoef}, MaxLen)
    \cup UNION {SeqsUpTo({Element(p, c) : c \in 0..MaxCoef}, MaxLen) : p \in Primes}

PolyFrame == UNCHANGED <<elemVars, matVars, trial>>

NewPolynomial(coefs) ==
    /\ poly' = Polynomial(coefs)
    /\ pres' = [op |-> "Polynomial", arg |-> coefs, result |-> Polynomial(coefs)]
    /\ PolyFrame

\* Whether a result stays within the coefficients the model follows.
WithinCoefBound(r) ==
    IF IsExc(r) THEN TRUE
    ELSE \A i \in 1..Len(r.coefficients) :
            r.coefficients[i].value \in (-MaxCoef)..MaxCoef

\* poly * k and poly + k for an int k; poly * poly and poly + poly.  A
\* Polynomial returned becomes the current one.
PolyArith(op, other) ==
    LET r == IF op = "mul" THEN Polynomial_mul(poly, other)
                           ELSE Polynomial_add(poly, other)
    IN  /\ WithinCoefBound(r)
        /\ pres' = [op |-> op, arg |-> <<other>>, result |-> r]
        /\ poly' = IF IsExc(r) THEN poly ELSE r
        /\ PolyFrame

CallDx ==
    /\ pres' = [op |-> "dx", arg |-> <<>>, result |-> dx(poly)]
    /\ poly' = poly
    /\ PolyFrame

CallDerivative ==
    /\ pres' = [op |-> "derivative", arg |-> <<>>, result |-> derivative(poly)]
    /\ poly' = poly
    /\ PolyFrame

CallCompanionMatrix ==
    /\ pres' = [op |-> "companion_matrix", arg |-> <<>>,
                result |-> companion_matrix(poly)]
    /\ poly' = poly
    /\ PolyFrame

InitPolynomial ==
    /\ poly = Polynomial(<<>>)
    /\ pres = NoCall
    /\ InitElementIdle /\ InitMatIdle /\ InitTrialIdle

NextPolynomial ==
    \/ \E coefs \in CoefLists : NewPolynomial(coefs)
    \/ \E op \in {"mul", "add"}, k \in (-MaxCoef)..MaxCoef : PolyArith(op, PyInt(k))
    \/ \E op \in {"mul", "add"} : PolyArith(op, poly)
    \/ CallDx
    \/ CallDerivative
    \/ CallCompanionMatrix

SpecPolynomial == InitPolynomial /\ [][NextPolynomial]_vars

\* A coefficient that is zero: the number 0, or the zero residue of a field.
IsZeroCoef(c) == c.value = 0

\* C2: every Polynomial, whether its coefficients are plain numbers or field
\* Elements, holds a coefficient sequence with no trailing zero coefficient,
\* except that the all-zero polynomial is the one-element sequence [0]; and
\* Polynomial([1,0,0]) has degree 0 and coefficients (1,).
C2_NoTrailingZero ==
    LET c == poly.coefficients
    IN  /\ Len(c) >= 1
        /\ Len(c) > 1 => ~IsZeroCoef(c[Len(c)])
        /\ (\A i \in 1..Len(c) : IsZeroCoef(c[i])) => Len(c) = 1
        /\ (pres.op = "Polynomial" /\ pres.arg = <<PyInt(1), PyInt(0), PyInt(0)>>) =>
              degree(poly) = 0 /\ c = <<PyInt(1)>>

\* The part of C2 that the code does keep: a Polynomial whose coefficients are
\* plain numbers has no trailing zero.
C2_PlainNumbersTrimmed ==
    LET c == poly.coefficients
    IN  (\A i \in 1..Len(c) : c[i].kind = "int") =>
           /\ Len(c) >= 1
           /\ Len(c) > 1 => ~IsZeroCoef(c[Len(c)])
           /\ (pres.op = "Polynomial" /\ pres.arg = <<PyInt(1), PyInt(0), PyInt(0)>>) =>
                 degree(poly) = 0 /\ c = <<PyInt(1)>>

\* The derivative the claims describe: coefficients[i]*i for i in 1..degree
\* when degree >= 1, the zero polynomial otherwise.
ExpectedDerivative(p) ==
    IF degree(p) >= 1
    THEN Polynomial([i \in 1..degree(p) |-> PyMul(p.coefficients[i + 1], PyInt(i))])
    ELSE Polynomial(<<PyInt(0)>>)

\* C6: for every Polynomial p, p.dx() returns its derivative: the Polynomial
\* of coefficients[i]*i for i in 1..degree when degree >= 1, the zero
\* polynomial otherwise.
C6_DxReturnsDerivative ==
    pres.op = "dx" => pres.result = ExpectedDerivative(poly)

\* The cell (i, j), counted from 1, of the companion matrix the claim
\* describes for a polynomial of degree n: 1 below the diagonal, the negated
\* normalized coefficient c_(i-1) in the last column, 0 elsewhere.
ExpectedCompanionCell(p, i, j) ==
    LET n == degree(p)
    IN  IF j = n THEN PyNeg(PyTrueDiv(p.coefficients[i], p.coefficients[n + 1]))
        ELSE IF i > 1 /\ j = i - 1 THEN PyInt(1)
        ELSE PyInt(0)

\* C3: for every Polynomial of degree n >= 2, companion_matrix returns an
\* n x n Matrix whose row i holds 1 in column i-1 (for i > 0), the negated
\* normalized coefficient c_i in the last column, and 0 elsewhere.
C3_CompanionMatrixCells ==
    (pres.op = "companion_matrix" /\ degree(poly) >= 2) =>
        /\ pres.result.kind = "Matrix"
        /\ pres.result.size = degree(poly)
        /\ \A i \in 1..degree(poly), j \in 1..degree(poly) :
              pres.result.matrix[i][j] = ExpectedCompanionCell(poly, i, j)

\* C7: companion_matrix on a Polynomial of degree less than 2 (0 as well as
\* 1) fails with ValueError and returns no Matrix.
C7_LowDegreeValueError ==
    (pres.op = "companion_matrix" /\ degree(poly) < 2) =>
        pres.result.kind = "ValueError"

----------------------------------------------------------------------------
(* Spec: a heap of cell arrays and Matrix objects.  The caller makes cell   *)
(* arrays, constructs Matrices from them (a Matrix keeps the array object   *)
(* it was given) and calls +, -, *, ** and block_diagonal on the Matrices.  *)

\* The cell arrays the caller makes: for n in Sizes and v in 0..MaxSeed, the
\* n x n list of rows of the ints v, v+1, ... in row order, so that no two
\* cells of an array are alike.
SeedArray(n, v) == [i \in 1..n |-> [j \in 1..n |-> PyInt(v + (i - 1) * n + (j - 1))]]

SeedArrays == {SeedArray(n, v) : n \in Sizes, v \in 0..MaxSeed}

\* The Matrix object m as a value: its cells are those of its array now.
View(m) ==
    [kind |-> "Matrix", size |-> m.size, field |-> m.field,
     matrix |-> arrays[m.matrix]]

MatrixIds == 1..Len(matrices)

MatFrame == UNCHANGED <<elemVars, polyVars, trial>>

\* The heap after a call returned r.  An exception leaves the heap as it is.
\* A Matrix returned is a new object on a new array, which the caller keeps
\* (while the heap has room) or drops.
Returned(r) ==
    \/ /\ ~IsExc(r)
       /\ Len(arrays) < MaxArrays /\ Len(matrices) < MaxMatrices
       /\ arrays' = Append(arrays, r.matrix)
       /\ matrices' = Append(matrices, [size |-> r.size, field |-> r.field,
                                        matrix |-> Len(arrays) + 1])
       /\ cons' = Append(cons, r)
    \/ UNCHANGED <<arrays, matrices, cons>>

\* array = [[...], ...] in the caller.
NewArray(cells) ==
    /\ Len(arrays) < MaxArrays
    /\ arrays' = Append(arrays, cells)
    /\ mres' = [op |-> "list", args |-> <<>>, result |-> PyInt(Len(arrays) + 1)]
    /\ UNCHANGED <<matrices, cons>>
    /\ MatFrame

\* Matrix(array, field) on the array object a of the heap.
Construct(a, field) ==
    LET r == Matrix(arrays[a], field)
    IN  /\ Len(matrices) < MaxMatrices
        /\ arrays' = [arrays EXCEPT ![a] = r.array]
        /\ IF IsExc(r.result)
           THEN UNCHANGED <<matrices, cons>>
           ELSE /\ matrices' = Append(matrices, [size |-> r.result.size,
                                                 field |-> field, matrix |-> a])
                /\ cons' = Append(cons, r.result)
        /\ mres' = [op |-> "Matrix", args |-> <<PyInt(a), PyInt(field)>>,
                    result |-> r.result]
        /\ MatFrame

\* m1 + m2, m1 - m2, m1 * m2 on Matrix objects of the heap.
BinOp(op, m1, m2) ==
    LET self == View(matrices[m1])
        other == View(matrices[m2])
        r == CASE op = "add" -> Matrix_add(self, other)
               [] op = "sub" -> Matrix_sub(self, other)
               [] op = "mul" -> Matrix_mul(self, other)
    IN  /\ Returned(r)
        /\ mres' = [op |-> op, args |-> <<self, other>>, result |-> r]
        /\ MatFrame

\* m * k for an int k.
MulInt(m, k) ==
    LET self == View(matrices[m])
        r == Matrix_mul(self, PyInt(k))
    IN  /\ Returned(r)
        /\ mres' = [op |-> "mul", args |-> <<self, PyInt(k)>>, result |-> r]
        /\ MatFrame

\* m ** k for an int k: the object m itself when k <= 1.
Pow(m, k) ==
    LET self == View(matrices[m])
        r == Matrix_pow(self, k)
    IN  /\ IF k <= 1 THEN UNCHANGED <<arrays, matrices, cons>> ELSE Returned(r)
        /\ mres' = [op |-> "pow", args |-> <<self, PyInt(k)>>, result |-> r]
        /\ MatFrame

\* block_diagonal([m, ...]) on a list of Matrix objects of the heap.
BlockDiagonal(ms) ==
    LET square_matrices == [k \in 1..Len(ms) |-> View(matrices[ms[k]])]
        r == block_diagonal(square_matrices)
    IN  /\ Returned(r)
        /\ mres' = [op |-> "block_diagonal", args |-> square_matrices, result |-> r]
        /\ MatFrame

Init ==
    /\ arrays = <<>> /\ matrices = <<>> /\ cons = <<>> /\ mres = NoCall
    /\ InitElementIdle /\ InitPolyIdle /\ InitTrialIdle

Next ==
    \/ \E cells \in SeedArrays : NewArray(cells)
    \/ \E a \in 1..Len(arrays), field \in {0} \cup Primes : Construct(a, field)
    \/ \E op \in {"add", "sub", "mul"}, m1 \in MatrixIds, m2 \in MatrixIds :
         BinOp(op, m1, m2)
    \/ \E m \in MatrixIds, k \in 0..MaxExp : MulInt(m, k)
    \/ \E m \in MatrixIds, k \in 0..MaxExp : Pow(m, k)
    \/ \E ms \in SeqsUpTo(MatrixIds, MaxBlocks) : BlockDiagonal(ms)

Spec == Init /\ [][Next]_vars

\* A Matrix value that meets the data model: with a field, every cell is an
\* Element of that field; without one, every cell is an int.
WellFormed(M) ==
    \A i \in 1..M.size, j \in 1..M.size :
        IF M.field = 0 THEN M.matrix[i][j].kind = "int"
        ELSE M.matrix[i][j].kind = "Element" /\ M.matrix[i][j].prime = M.field

\* The scalar of a Matrix of the given field (0: none) that stands for the
\* integer v.
Scalar(field, v) ==
    IF field = 0 THEN PyInt(v)
    ELSE [kind |-> "Element", prime |-> field, value |-> v % field, den |-> 1]

\* C8: for two Matrices of equal size and identical field (the same prime, or
\* both none), add and sub return a Matrix of that size and field whose cell
\* (i, j) is the sum, respectively the difference, of the operands' cells.
C8_AddSubCellwise ==
    (/\ mres.op \in {"add", "sub"}
     /\ WellFormed(mres.args[1]) /\ WellFormed(mres.args[2])
     /\ mres.args[1].size = mres.args[2].size
     /\ mres.args[1].field = mres.args[2].field) =>
        LET A == mres.args[1]
            B == mres.args[2]
            R == mres.result
        IN  /\ R.kind = "Matrix"
            /\ R.size = A.size /\ R.field = A.field
            /\ \A i \in 1..A.size, j \in 1..A.size :
                  R.matrix[i][j] =
                     Scalar(A.field,
                            IF mres.op = "add"
                            THEN A.matrix[i][j].value + B.matrix[i][j].value
                            ELSE A.matrix[i][j].value - B.matrix[i][j].value)

\* The part of C8 that the code does keep: with the same prime on both sides.
C8_AddSubSamePrime ==
    (/\ mres.op \in {"add", "sub"}
     /\ WellFormed(mres.args[1]) /\ WellFormed(mres.args[2])
     /\ mres.args[1].size = mres.args[2].size
     /\ mres.args[1].field = mres.args[2].field
     /\ mres.args[1].field # 0) =>
        LET A == mres.args[1]
            B == mres.args[2]
            R == mres.result
        IN  /\ R.kind = "Matrix"
            /\ R.size = A.size /\ R.field = A.field
            /\ \A i \in 1..A.size, j \in 1..A.size :
                  R.matrix[i][j] =
                     Scalar(A.field,
                            IF mres.op = "add"
                            THEN A.matrix[i][j].value + B.matrix[i][j].value
                            ELSE A.matrix[i][j].value - B.matrix[i][j].value)

\* C9: multiplying two Matrices whose sizes differ or whose fields differ
\* (different primes, or only one with a field) fails and never returns a
\* Matrix.
C9_MulChecksCompatibility ==
    (/\ mres.op = "mul"
     /\ mres.args[2].kind = "Matrix"
     /\ WellFormed(mres.args[1]) /\ WellFormed(mres.args[2])
     /\ \/ mres.args[1].size # mres.args[2].size
        \/ mres.args[1].field # mres.args[2].field) =>
        IsExc(mres.result)

\* C10: no Matrix is mutated after construction: every Matrix of the heap
\* still has the size, field and cells it had when constructed, so each of
\* its cells is still a scalar of its own field.
C10_NoMatrixMutated ==
    \A m \in MatrixIds :
        /\ View(matrices[m]) = cons[m]
        /\ WellFormed(cons[m]) => WellFormed(View(matrices[m]))

\* The row and column (from 1) at which block k of a list of matrices starts.
BlockStart(ms, k) == SumSizes(ms, k - 1)

\* C4: for a non-empty list of square Matrices sharing one field,
\* block_diagonal returns a Matrix whose size is the sum of the sizes, with
\* the common field, the k-th matrix in the diagonal block at the offset of
\* the sizes before it, and 0 in every cell outside the diagonal blocks.
C4_BlockDiagonalLayout ==
    (/\ mres.op = "block_diagonal"
     /\ Len(mres.args) >= 1
     /\ \A k \in 1..Len(mres.args) :
           WellFormed(mres.args[k]) /\ mres.args[k].field = mres.args[1].field) =>
        LET ms == mres.args
            R == mres.result
            total == SumSizes(ms, Len(ms))
            inBlock(k, i, j) ==
                /\ i > BlockStart(ms, k) /\ i <= BlockStart(ms, k) + ms[k].size
                /\ j > BlockStart(ms, k) /\ j <= BlockStart(ms, k) + ms[k].size
        IN  /\ R.kind = "Matrix"
            /\ R.size = total /\ R.field = ms[1].field
            /\ \A i \in 1..total, j \in 1..total :
                  /\ \A k \in 1..Len(ms) : inBlock(k, i, j) =>
                        R.matrix[i][j] =
                            ms[k].matrix[i - BlockStart(ms, k)][j - BlockStart(ms, k)]
                  /\ (\A k \in 1..Len(ms) : ~inBlock(k, i, j)) =>
                        R.matrix[i][j].value = 0

----------------------------------------------------------------------------
(* SpecAlgebra: trials of the multiplication laws.  A trial is set up for a *)
(* prime and a size; it draws three cell arrays of ints, constructs the     *)
(* Matrices A, B, C from them and evaluates both sides of each law.         *)

\* Every n x n list of rows of ints drawn from cells.
RawArrays(n, cells) == [1..n -> [1..n -> {PyInt(v) : v \in cells}]]

\* The ints in the cell arrays of B and of C.
BCells == {0, 1}
CCells == {1, 2}

Setup(p, n) == [op |-> "setup", p |-> p, n |-> n]

\* One trial: A from cells in 0..MaxCell, B from BCells and C from CCells.
Trial(a, b, c) ==
    /\ trial.op = "setup"
    /\ \E A \in {Matrix(a, trial.p).result}, B \in {Matrix(b, trial.p).result},
          C \in {Matrix(c, trial.p).result} :
         \E AB \in {Matrix_mul(A, B)}, BC \in {Matrix_mul(B, C)},
            AC \in {Matrix_mul(A, C)}, BplusC \in {Matrix_add(B, C)} :
            trial' = [op |-> "trial", p |-> trial.p, n |-> trial.n,
                      A |-> A, B |-> B, C |-> C,
                      assocL |-> Matrix_mul(AB, C),
                      assocR |-> Matrix_mul(A, BC),
                      distL |-> Matrix_mul(A, BplusC),
                      distR |-> Matrix_add(AB, AC)]
    /\ UNCHANGED <<elemVars, polyVars, matVars>>

\* The next trial starts from the same prime and size.
NextTrial ==
    /\ trial.op = "trial"
    /\ trial' = Setup(trial.p, trial.n)
    /\ UNCHANGED <<elemVars, polyVars, matVars>>

InitAlgebra ==
    /\ \E p \in Primes, n \in Sizes : trial = Setup(p, n)
    /\ InitElementIdle /\ InitPolyIdle /\ InitMatIdle

NextAlgebra ==
    \/ \E a \in RawArrays(trial.n, 0..MaxCell), b \in RawArrays(trial.n, BCells),
          c \in RawArrays(trial.n, CCells) : Trial(a, b, c)
    \/ NextTrial

SpecAlgebra == InitAlgebra /\ [][NextAlgebra]_vars

\* C5: for all Matrices A, B, C of the same size over the same prime field,
\* (A*B)*C and A*(B*C) have equal cells, and so have A*(B+C) and A*B + A*C.
C5_MulAssociativeDistributive ==
    trial.op = "trial" =>
        /\ trial.assocL.kind = "Matrix" /\ trial.assocR.kind = "Matrix"
        /\ trial.assocL.matrix = trial.assocR.matrix
        /\ trial.distL.kind = "Matrix" /\ trial.distR.kind = "Matrix"
        /\ trial.distL.matrix = trial.distR.matrix

\* C5's case: 2 x 2 matrices over F3 with A*B different from B*A, B different
\* from C, and a product (A*B)*C that is not the zero matrix.
C5_Witness ==
    /\ trial.op = "trial"
    /\ trial.A.size = 2 /\ trial.A.field = 3
    /\ Matrix_mul(trial.A, trial.B).matrix # Matrix_mul(trial.B, trial.A).matrix
    /\ trial.B # trial.C
    /\ trial.assocL.kind = "Matrix"
    /\ \E i \in 1..2, j \in 1..2 : trial.assocL.matrix[i][j].value # 0
    /\ \E i \in 1..2, j \in 1..2 : trial.distL.matrix[i][j].value # 0

=============================================================================
